---- MODULE Spec2Model ----
(***************************************************************************)
(* Model of lompe/utils/conductance.py: the Hardy auroral conductance      *)
(* evaluator (hardy), the EUV conductance evaluator (EUV_conductance) and  *)
(* their combiner (hardy_EUV).                                             *)
(*                                                                         *)
(* Real numbers are fixed-point integers in units of 1/SCALE (0.55 mho is  *)
(* 550, 68 degrees is 68000, 6 hours MLT is 6000).  Python strings are     *)
(* tuples of one-character strings, so that lower(), "in" (substring) and  *)
(* indexing can be computed.  An array is a record [shape, data] with the  *)
(* data flattened in row-major order.  A call is one action; its outcome   *)
(* records the status (ok or the exception raised), the returned value,    *)
(* the data files read, the notices printed and the collaborators called.  *)
(***************************************************************************)
EXTENDS Integers, Sequences, FiniteSets, TLC

VARIABLES files, fn, args, out

vars == <<files, fn, args, out>>

-----------------------------------------------------------------------------
(* Bounds of the model *)

\* largest extent of one axis of an input array
MaxDim == 2

-----------------------------------------------------------------------------
(* Fixed-point arithmetic standing for numpy float arithmetic *)

SCALE == 1000

Abs(x) == IF x < 0 THEN -x ELSE x

Sgn(x) == IF x < 0 THEN -1 ELSE 1

Max2(a, b) == IF a >= b THEN a ELSE b

IDiv(a, b) == Sgn(a) * Sgn(b) * (Abs(a) \div Abs(b))

Mul(a, b) == IDiv(a * b, SCALE)

Div(a, b) == IDiv(a * SCALE, b)

RECURSIVE ExpSeries(_, _, _)
ExpSeries(f, n, term) ==
    IF n > 12 \/ term = 0 THEN 0
    ELSE term + ExpSeries(f, n + 1, IDiv(term * f, n * SCALE))

\* np.exp
RECURSIVE Exp(_)
Exp(x) ==
    IF x >= SCALE THEN IDiv(Exp(x - SCALE) * 2718, 1000)
    ELSE IF x < 0 THEN IDiv(Exp(x + SCALE) * 1000, 2718)
    ELSE ExpSeries(x, 1, SCALE)

\* np.log, for y > 0
RECURSIVE Log(_)
Log(y) ==
    IF y >= 2718 THEN SCALE + Log(IDiv(y * 1000, 2718))
    ELSE IF y < SCALE THEN Log(IDiv(y * 2718, 1000)) - SCALE
    ELSE LET z  == Div(y - SCALE, y + SCALE)
             z2 == Mul(z, z)
             z3 == Mul(z, z2)
             z5 == Mul(z3, z2)
             z7 == Mul(z5, z2)
         IN  2 * (z + IDiv(z3, 3) + IDiv(z5, 5) + IDiv(z7, 7))

\* x ** a for x >= 0; x ** 1 is x
Pow(x, a) ==
    IF x = 0 THEN 0
    ELSE IF a = SCALE THEN x
    ELSE Exp(Mul(a, Log(x)))

\* np.sqrt
Sqrt(x) == Pow(x, 500)

\* np.cos and np.sin of (n * mlt / 12 * pi), exact at the quarter-day points
\* the model samples (mlt a multiple of 6 h); q is n * mlt in units of 1/SCALE h
TrigCos(q) ==
    LET m == q % 24000
    IN  IF m = 0 THEN SCALE ELSE IF m = 12000 THEN -SCALE ELSE 0

TrigSin(q) ==
    LET m == q % 24000
    IN  IF m = 6000 THEN SCALE ELSE IF m = 18000 THEN -SCALE ELSE 0

-----------------------------------------------------------------------------
(* Python strings *)

LowerChar(c) ==
    IF c = "H" THEN "h" ELSE IF c = "P" THEN "p" ELSE IF c = "A" THEN "a"
    ELSE IF c = "L" THEN "l" ELSE c

\* str.lower()
Lower(s) == [i \in 1..Len(s) |-> LowerChar(s[i])]

\* s in t, for strings s and t
IsSubstr(s, t) ==
    /\ Len(s) <= Len(t)
    /\ \E i \in 0..(Len(t) - Len(s)) : SubSeq(t, i + 1, i + Len(s)) = s

\* s in L, for a list L of strings
InList(s, L) == \E i \in 1..Len(L) : L[i] = s

-----------------------------------------------------------------------------
(* numpy arrays *)

RECURSIVE Size(_)
Size(shape) == IF shape = <<>> THEN 1 ELSE Head(shape) * Size(Tail(shape))

\* np.array(x, ndmin = 1).shape
AtLeast1d(shape) == IF shape = <<>> THEN <<1>> ELSE shape

PadShape(s, n) ==
    [i \in 1..n |-> IF i <= n - Len(s) THEN 1 ELSE s[i - (n - Len(s))]]

\* whether np.broadcast(a, b) succeeds for arrays of shapes s1, s2
CanBroadcast(s1, s2) ==
    LET n == Max2(Len(s1), Len(s2))
        a == PadShape(s1, n)
        b == PadShape(s2, n)
    IN  \A i \in 1..n : a[i] = b[i] \/ a[i] = 1 \/ b[i] = 1

\* np.broadcast(a, b).shape
BroadcastShape(s1, s2) ==
    LET n == Max2(Len(s1), Len(s2))
        a == PadShape(s1, n)
        b == PadShape(s2, n)
    IN  [i \in 1..n |-> IF a[i] = 1 THEN b[i] ELSE a[i]]

\* an elementwise operation on two flattened (1-D) operands of lengths n1, n2
FlatCompatible(n1, n2) == n1 = n2 \/ n1 = 1 \/ n2 = 1

FlatLen(n1, n2) == Max2(n1, n2)

\* element of a 1-D operand of length Len(d) taking part in result element i
At(d, i) == IF Len(d) = 1 THEN d[1] ELSE d[i]

-----------------------------------------------------------------------------
(* Python values passed as kp: an int, a float (v in units of 1/SCALE), a  *)
(* bool (v is 1 or 0) or a str holding the decimal digits of v             *)

Digits == <<"0", "1", "2", "3", "4", "5", "6", "7", "8", "9">>

DigitChar(n) == Digits[n + 1]

DigitOf(c) == CHOOSE n \in 0..9 : Digits[n + 1] = c

\* str(n) for an int n in -9..9
IntStr(n) == IF n < 0 THEN <<"-", DigitChar(-n)>> ELSE <<DigitChar(n)>>

\* str(kp)
PyStr(kp) ==
    IF kp.t = "int" THEN IntStr(kp.v)
    ELSE IF kp.t = "float"
         THEN <<DigitChar(kp.v \div SCALE), ".", DigitChar((kp.v % SCALE) \div 100)>>
    ELSE IF kp.t = "bool"
         THEN (IF kp.v = 1 THEN <<"T", "r", "u", "e">> ELSE <<"F", "a", "l", "s", "e">>)
    ELSE IntStr(kp.v)

\* kp == n for an int n (Python compares int, float and bool by numeric value)
PyEqInt(kp, n) ==
    IF kp.t = "int" \/ kp.t = "bool" THEN kp.v = n
    ELSE IF kp.t = "float" THEN kp.v = n * SCALE
    ELSE FALSE

\* kp in [0, 1, 2, 3, 4, 5, 6]
KpInList(kp) == \E n \in 0..6 : PyEqInt(kp, n)

-----------------------------------------------------------------------------
(* Static data files.  files.hall, files.ped and files.prod say whether    *)
(* the file can be loaded; files.profile selects the coefficient values.   *)

HallFile == "hardy_hall_coefficients.txt"

PedFile == "hardy_pedersen_coefficients.txt"

ProdFile == "chapman_euv_productionvalues.txt"

Terms == << <<"C", "o", "n", "s", "t">>, <<"C", "o", "s", "1">>, <<"S", "i", "n", "1">> >>

\* the four coefficients of the row (Kp = k, term number j) of a coefficient file
HardyCoefficients(file, profile, k, j) ==
    LET hall == file = HallFile
        typ  == profile = "typical"
    IN  IF j = 1 THEN
            [maxvalue    |-> IF typ THEN (IF hall THEN 4000 + 500 * k ELSE 3000 + 400 * k)
                                    ELSE (IF hall THEN 200 + 100 * k ELSE 300 + 100 * k),
             maxlatitude |-> 68000,
             upslope     |-> IF hall THEN 1000 ELSE 900,
             downslope   |-> IF hall THEN -1200 ELSE -1100]
        ELSE IF j = 2 THEN
            [maxvalue    |-> IF typ THEN (IF hall THEN 1000 ELSE 800) ELSE 500,
             maxlatitude |-> IF hall THEN 2000 ELSE -2000,
             upslope     |-> 0,
             downslope   |-> 0]
        ELSE
            [maxvalue    |-> IF hall THEN 300 ELSE 200,
             maxlatitude |-> 0,
             upslope     |-> IF hall THEN 100 ELSE -100,
             downslope   |-> 0]

\* pd.read_table(file): the rows K0..K6 x Terms of a coefficient file
HardyTable(file, profile) ==
    [i \in 1..(7 * Len(Terms)) |->
        LET k == (i - 1) \div Len(Terms)
            j == ((i - 1) % Len(Terms)) + 1
            c == HardyCoefficients(file, profile, k, j)
        IN  [Kp          |-> <<"K", DigitChar(k)>>,
             term        |-> Terms[j],
             maxvalue    |-> c.maxvalue,
             maxlatitude |-> c.maxlatitude,
             upslope     |-> c.upslope,
             downslope   |-> c.downslope]]

FileOK(file) ==
    IF file = HallFile THEN files.hall
    ELSE IF file = PedFile THEN files.ped
    ELSE files.prod

-----------------------------------------------------------------------------
(* hardy *)

\* hc[hc.Kp == 'K' + str(kp)]
SelectKp(table, kp) == SelectSeq(table, LAMBDA row : row.Kp = <<"K">> \o PyStr(kp))

\* hc['n']: int(t[-1]) if t[-1] != 't' else 0
TermN(t) == IF t[Len(t)] # "t" THEN DigitOf(t[Len(t)]) ELSE 0

\* hc['trig']: np.sin if t[:3] == 'Sin' else np.cos, applied to n * mlt / 12 * pi
TermTrig(t, q) == IF SubSeq(t, 1, 3) = <<"S", "i", "n">> THEN TrigSin(q) ELSE TrigCos(q)

\* the Fourier series of one Epstein parameter at one mlt
RECURSIVE FourierSum(_, _, _)
FourierSum(rows, key, mlt) ==
    IF rows = <<>> THEN 0
    ELSE LET row == Head(rows)
         IN  Mul(row[key], TermTrig(row.term, TermN(row.term) * mlt))
             + FourierSum(Tail(rows), key, mlt)

\* the Epstein transition function at one sample
Epstein(r, S1, S2, h0, mlat) ==
    r + Mul(S1, mlat - h0)
      + Mul(S2 - S1, Log(Div(SCALE - Div(S1, Mul(S2, Exp(-(mlat - h0)))),
                             SCALE - Div(S1, S2))))

FloorLow == 0

FloorHigh == 550

\* the two floor assignments at one sample
HardyFloor(mlat, h0, c) ==
    LET c1 == IF mlat < h0 /\ c < FloorLow THEN FloorLow ELSE c
    IN  IF mlat > h0 /\ c1 < FloorHigh THEN FloorHigh ELSE c1

\* one "if 'h' in hallOrPed" / "if 'p' in hallOrPed" block of hardy, on the
\* flattened |mlat| and mlt: [status, data, reads]
HardyChannel(file, mlat, mlt, kp) ==
    IF ~FileOK(file) THEN [status |-> "FileNotFoundError", data |-> <<>>, reads |-> <<>>]
    ELSE LET rows == SelectKp(HardyTable(file, files.profile), kp)
             P(key, i) == FourierSum(rows, key, At(mlt, i))
         IN  IF rows = <<>>
             THEN [status |-> "ZeroDivisionError", data |-> <<>>, reads |-> <<file>>]
             ELSE IF ~FlatCompatible(Len(mlat), Len(mlt))
             THEN [status |-> "ValueError", data |-> <<>>, reads |-> <<file>>]
             ELSE [status |-> "ok",
                   data   |-> [i \in 1..FlatLen(Len(mlat), Len(mlt)) |->
                                 HardyFloor(At(mlat, i), P("maxlatitude", i),
                                            Epstein(P("maxvalue", i), P("upslope", i),
                                                    P("downslope", i),
                                                    P("maxlatitude", i), At(mlat, i)))],
                   reads  |-> <<file>>]

\* the outcome of a call that raised
Raised(status, reads, printed, calls) ==
    [status |-> status, value |-> <<>>, reads |-> reads, printed |-> printed, calls |-> calls]

Failure(status, reads) == Raised(status, reads, <<>>, <<>>)

\* Pair with the two arrays returned in the other order
PairSwapped(a, b) == [first |-> b, second |-> a]

\* the tuple (a, b) a call returns for both channels
Pair(a, b) == [first |-> a, second |-> b]

\* x.reshape(shape) of a flat result
Reshape(data, shape) == [shape |-> shape, data |-> data]

\* hardy(mlat, mlt, kp, hallOrPed)
hardy(mlat, mlt, kp, hallOrPed) ==
    LET ch    == Lower(hallOrPed)
        s1    == AtLeast1d(mlat.shape)
        s2    == AtLeast1d(mlt.shape)
        shape == BroadcastShape(s1, s2)
        amlat == [i \in 1..Len(mlat.data) |-> Abs(mlat.data[i])]
        getH  == IsSubstr(<<"h">>, ch)
        getP  == IsSubstr(<<"p">>, ch)
        H     == HardyChannel(HallFile, amlat, mlt.data, kp)
        Pd    == HardyChannel(PedFile, amlat, mlt.data, kp)
        hrd   == IF getH THEN H.reads ELSE <<>>
    IN  IF ~InList(ch, << <<"h">>, <<"p">>, <<"h", "p">> >>)
            THEN Failure("AssertionError: hallOrPed", <<>>)
        ELSE IF ~KpInList(kp) THEN Failure("AssertionError: Kp", <<>>)
        ELSE IF ~CanBroadcast(s1, s2) THEN Failure("ValueError", <<>>)
        ELSE IF getH /\ H.status # "ok" THEN Failure(H.status, H.reads)
        ELSE IF getP /\ Pd.status # "ok" THEN Failure(Pd.status, hrd \o Pd.reads)
        ELSE IF Len(IF getH THEN H.data ELSE Pd.data) # Size(shape)
            THEN Failure("ValueError", hrd \o (IF getP THEN Pd.reads ELSE <<>>))
        ELSE [status  |-> "ok",
              value   |-> IF ch = <<"h">> THEN Reshape(H.data, shape)
                          ELSE IF ch = <<"p">> THEN Reshape(Pd.data, shape)
                          ELSE Pair(Reshape(H.data, shape), Reshape(Pd.data, shape)),
              reads   |-> hrd \o (IF getP THEN Pd.reads ELSE <<>>),
              printed |-> <<>>,
              calls   |-> <<>>]

-----------------------------------------------------------------------------
(* EUV_conductance *)

\* MODELSZAS (sza of the production table rows), on a coarse grid
MODELSZAS == <<0, 30000, 60000, 90000, 120000>>

\* np.loadtxt(PRODUCTIONFILE): relative production at each MODELSZAS
PRODUCTION == <<1000, 866, 500, 60, 2>>

Calibrations == <<"MoenBrekke1993", "MoenBrekke1993_alt", "Cousinsetal2015">>

\* defcal naming another calibration
defcalOther == "MoenBrekke1993_alt"

\* the calibration substituted for an unrecognized one
defcal == "MoenBrekke1993"

\* the constants assigned in the branch of a (recognized) calibration
CalibrationConstants(calibration) ==
    IF calibration = "MoenBrekke1993" THEN
        [f107pedexponent |-> 490, f107hallexponent |-> 530,
         PedScl |-> 0, HalScl |-> 0, pedexponent |-> 0, hallexponent |-> 0]
    ELSE IF calibration = "MoenBrekke1993_alt" THEN
        [f107pedexponent |-> 490, f107hallexponent |-> 530,
         PedScl |-> 1270, HalScl |-> 1350, pedexponent |-> 650, hallexponent |-> 790]
    ELSE
        [f107pedexponent |-> 667, f107hallexponent |-> 500,
         PedScl |-> 500, HalScl |-> 1800, pedexponent |-> 667, hallexponent |-> 1000]

\* the array handed to interp1d for the Hall channel
HallScaled(calibration, F107) ==
    LET c == CalibrationConstants(calibration)
    IN  [i \in 1..Len(PRODUCTION) |->
            IF calibration = "MoenBrekke1993"
            THEN Mul(Pow(F107, c.f107hallexponent),
                     Mul(810, PRODUCTION[i]) + Mul(540, Sqrt(PRODUCTION[i])))
            ELSE Mul(Mul(Pow(F107, c.f107hallexponent), c.HalScl),
                     Pow(PRODUCTION[i], c.hallexponent))]

\* the array handed to interp1d for the Pedersen channel
PedScaled(calibration, F107) ==
    LET c == CalibrationConstants(calibration)
    IN  [i \in 1..Len(PRODUCTION) |->
            IF calibration = "MoenBrekke1993"
            THEN Mul(Pow(F107, c.f107pedexponent),
                     Mul(340, PRODUCTION[i]) + Mul(930, Sqrt(PRODUCTION[i])))
            ELSE Mul(Mul(Pow(F107, c.f107pedexponent), c.PedScl),
                     Pow(PRODUCTION[i], c.pedexponent))]

\* interp1d(xs, ys, fill_value = 'extrapolate')(x): linear, the end segments
\* extended outside the table
Interp(xs, ys, x) ==
    LET below == Cardinality({k \in 1..Len(xs) : xs[k] < x})
        lo    == IF below < 1 THEN 1
                 ELSE IF below > Len(xs) - 1 THEN Len(xs) - 1 ELSE below
        slope == Div(ys[lo + 1] - ys[lo], xs[lo + 1] - xs[lo])
    IN  Mul(slope, x - xs[lo]) + ys[lo]

\* ClampZero with the assignment left out
ClampZeroMissing(v) == v

\* sig[sig < 0] = 0 at one sample
ClampZero(v) == IF v < 0 THEN 0 ELSE v

Notice(calibration) == <<"Invalid calibration", calibration>>

\* EUV_conductance(sza, F107, hallOrPed, calibration)
EUV_conductance(sza, F107, hallOrPed, calibration) ==
    LET ch     == Lower(hallOrPed)
        shape  == sza.shape
        getH   == IsSubstr(<<"h">>, ch)
        getP   == IsSubstr(<<"p">>, ch)
        known  == InList(calibration, Calibrations)
        cal    == IF known THEN calibration ELSE defcal
        hs     == HallScaled(cal, F107)
        ps     == PedScaled(cal, F107)
        sigh   == [i \in 1..Len(sza.data) |-> Interp(MODELSZAS, hs, sza.data[i])]
        sigp   == [i \in 1..Len(sza.data) |-> Interp(MODELSZAS, ps, sza.data[i])]
        clamp(sig) == [i \in 1..Len(sig) |-> ClampZero(sig[i])]
    IN  IF ~InList(ch, << <<"h">>, <<"p">>, <<"h", "p">> >>)
            THEN Failure("AssertionError: hallOrPed", <<>>)
        ELSE IF ~FileOK(ProdFile) THEN Failure("FileNotFoundError", <<>>)
        ELSE [status  |-> "ok",
              value   |-> IF getH /\ getP
                              THEN Pair(Reshape(clamp(sigh), shape), Reshape(clamp(sigp), shape))
                          ELSE IF getH THEN Reshape(clamp(sigh), shape)
                          ELSE Reshape(clamp(sigp), shape),
              reads   |-> <<ProdFile>>,
              printed |-> IF known THEN <<>> ELSE <<Notice(calibration)>>,
              calls   |-> <<>>]

-----------------------------------------------------------------------------
(* Collaborators of hardy_EUV: lompe.dipole.Dipole and lompe.utils.sunlight. *)
(* Each works elementwise on flattened arrays.  time is the UT hour.         *)

\* Dipole.geo2mag at one point: (mlat, mlon)
geo2mag(lat, lon) == <<lat - 2000, (lon + 180000) % 360000>>

\* Dipole.mag2geo at one point: (lat, lon)
mag2geo(mlat, mlon) == <<mlat + 2000, (mlon + 180000) % 360000>>

\* Dipole.mlon2mlt at one point
mlon2mlt(mlon, time) == (IDiv(mlon, 15) + time) % 24000

\* sunlight.sza at one point: the subsolar point is on the equator
sza(lat, lon, time) ==
    LET sub  == ((36000 - time) * 15) % 360000
        d    == (lon - sub) % 360000
        dist == IF d > 180000 THEN 360000 - d ELSE d
    IN  Max2(Abs(lat), dist)

-----------------------------------------------------------------------------
(* hardy_EUV *)

ChannelTokens ==
    << <<"h", "a", "l", "l">>, <<"h">>, <<"p", "e", "d", "e", "r", "s", "e", "n">>, <<"p">>,
       <<"h", "p">>, <<"h", "a", "l", "l", "a", "n", "d", "p", "e", "d", "e", "r", "s", "e", "n">> >>

\* ValidChannel testing substring containment instead of the token list
ValidChannelSubstring(s) ==
    IsSubstr(<<"h">>, Lower(s)) \/ IsSubstr(<<"p">>, Lower(s))

\* the assertion on hall_or_pedersen
ValidChannel(s) == InList(Lower(s), ChannelTokens)

\* hop after the three if statements ("undefined" when none assigns it)
HopOf(s) ==
    LET l  == Lower(s)
        h1 == IF IsSubstr(l, ChannelTokens[1]) THEN "h" ELSE "undefined"
        h2 == IF IsSubstr(l, ChannelTokens[3]) THEN "p" ELSE h1
    IN  IF InList(l, <<ChannelTokens[5], ChannelTokens[6]>>) THEN "hp" ELSE h2

HopString(hop) == IF hop = "h" THEN <<"h">> ELSE IF hop = "p" THEN <<"p">> ELSE <<"h", "p">>

\* the hallOrPed hardy_EUV calls hardy with: none is passed, so the default
HardyRequest(hop) == <<"h", "p">>

\* a 1-D array
Flat(data) == [shape |-> <<Len(data)>>, data |-> data]

\* Frames with the inputs of the magnetic frame left unconverted for sza
FramesUnconverted(lat, lon, dipole, time) ==
    LET n    == FlatLen(Len(lat), Len(lon))
        g2m  == [i \in 1..n |-> geo2mag(At(lat, i), At(lon, i))]
        mlat == IF dipole THEN lat ELSE [i \in 1..n |-> g2m[i][1]]
        mlon == IF dipole THEN lon ELSE [i \in 1..n |-> g2m[i][2]]
    IN  [mlat |-> mlat,
         mlt  |-> [i \in 1..Len(mlon) |-> mlon2mlt(mlon[i], time)],
         lat  |-> lat,
         lon  |-> lon]

\* mlat, mlt and the geographic lat, lon of the flattened inputs
Frames(lat, lon, dipole, time) ==
    LET n    == FlatLen(Len(lat), Len(lon))
        g2m  == [i \in 1..n |-> geo2mag(At(lat, i), At(lon, i))]
        m2g  == [i \in 1..n |-> mag2geo(At(lat, i), At(lon, i))]
        mlat == IF dipole THEN lat ELSE [i \in 1..n |-> g2m[i][1]]
        mlon == IF dipole THEN lon ELSE [i \in 1..n |-> g2m[i][2]]
    IN  [mlat |-> mlat,
         mlt  |-> [i \in 1..Len(mlon) |-> mlon2mlt(mlon[i], time)],
         lat  |-> IF dipole THEN [i \in 1..n |-> m2g[i][1]] ELSE lat,
         lon  |-> IF dipole THEN [i \in 1..n |-> m2g[i][2]] ELSE lon]

\* hc + EUV + starlight
Total(hc, EUV, starlight) ==
    [i \in 1..FlatLen(Len(hc), Len(EUV)) |-> At(hc, i) + At(EUV, i) + starlight]

\* sunlight.sza(lat, lon, time) on the flattened geographic coordinates
SolarZenith(lat, lon, time) ==
    [i \in 1..FlatLen(Len(lat), Len(lon)) |-> sza(At(lat, i), At(lon, i), time)]

\* the sums of hardy_EUV and their reshape, given the outcomes E of the call of
\* EUV_conductance and HC of the call of hardy that follows it
Combine(hop, shape, starlight, E, HC, calls) ==
    LET c3   == calls \o <<"EUV_conductance">>
        c4   == c3 \o <<"hardy">>
        EUVh == IF hop = "hp" THEN E.value.first.data ELSE E.value.data
        EUVp == IF hop = "hp" THEN E.value.second.data ELSE E.value.data
        tH   == Total(HC.value.first.data, EUVh, starlight)
        tP   == Total(HC.value.second.data, EUVp, starlight)
        rd   == E.reads \o HC.reads
    IN  IF E.status # "ok" THEN Raised(E.status, E.reads, E.printed, c3)
        ELSE IF HC.status # "ok" THEN Raised(HC.status, rd, E.printed, c4)
        ELSE IF Len(tH) # Size(shape) THEN Raised("ValueError", rd, E.printed, c4)
        ELSE [status  |-> "ok",
              value   |-> IF hop = "h" THEN Reshape(tH, shape)
                          ELSE IF hop = "p" THEN Reshape(tP, shape)
                          ELSE Pair(Reshape(tH, shape), Reshape(tP, shape)),
              reads   |-> rd,
              printed |-> E.printed,
              calls   |-> c4]

\* the evaluator calls of hardy_EUV on the converted coordinates f
Evaluate(f, hop, shape, kp, time, starlight, F107, calibration, calls) ==
    Combine(hop, shape, starlight,
            EUV_conductance(Flat(SolarZenith(f.lat, f.lon, time)), F107, HopString(hop),
                            calibration),
            hardy(Flat(f.mlat), Flat(f.mlt), kp, HardyRequest(hop)),
            calls)

\* hardy_EUV(lon, lat, kp, time, hall_or_pedersen, starlight, F107, dipole, calibration)
hardy_EUV(lon, lat, kp, time, hall_or_pedersen, starlight, F107, dipole, calibration) ==
    LET s1  == AtLeast1d(lat.shape)
        s2  == AtLeast1d(lon.shape)
        c1  == <<"Dipole", IF dipole THEN "mag2geo" ELSE "geo2mag">>
        c2  == c1 \o <<"mlon2mlt", "sza">>
        hop == HopOf(hall_or_pedersen)
    IN  IF ~ValidChannel(hall_or_pedersen)
            THEN Raised("AssertionError: hall_or_pedersen", <<>>, <<>>, <<>>)
        ELSE IF ~CanBroadcast(s1, s2) THEN Raised("ValueError", <<>>, <<>>, <<>>)
        ELSE IF ~FlatCompatible(Len(lat.data), Len(lon.data))
            THEN Raised("ValueError", <<>>, <<>>, c1)
        ELSE IF hop = "undefined" THEN Raised("UnboundLocalError", <<>>, <<>>, c2)
        ELSE Evaluate(Frames(lat.data, lon.data, dipole, time), hop,
                      BroadcastShape(s1, s2), kp, time, starlight, F107, calibration, c2)

-----------------------------------------------------------------------------
(* Inputs *)

Shapes == {<<>>, <<MaxDim - 1>>, <<MaxDim>>, <<MaxDim, 1>>, <<1, MaxDim>>}

\* the array of a shape whose elements run cyclically through vals from start
Array(shape, vals, start) ==
    [shape |-> shape,
     data  |-> [i \in 1..Size(shape) |-> vals[((start + i - 2) % Len(vals)) + 1]]]

Arrays(vals, starts) == {Array(sh, vals, st) : sh \in Shapes, st \in starts}

MlatVals == <<66000, 70000, -68000, 64000, 72000>>

MltVals == <<0, 12000, 6000, 18000>>

SzaVals == <<45000, 150000, -30000, 100000, 120000>>

LatVals == <<68000, 72000, 66000, 70000>>

LonVals == <<0, 90000, 180000, 270000>>

PyInt(n) == [t |-> "int", v |-> n]

KpVals ==
    {PyInt(n) : n \in -1..7}
        \cup {[t |-> "float", v |-> 2000], [t |-> "float", v |-> 2500],
              [t |-> "bool", v |-> 1], [t |-> "str", v |-> 3]}

EvaluatorChannels == {<<"h">>, <<"p">>, <<"h", "p">>, <<"H", "P">>, <<"x">>}

CombinerChannels ==
    {ChannelTokens[i] : i \in 1..Len(ChannelTokens)}
        \cup {<<"H", "P">>, <<"H", "a", "l", "l">>, <<>>, <<"h", "a">>, <<"p", "e", "d">>,
              <<"s", "o", "m", "e", "t", "h", "i", "n", "g", "-", "h">>}

CalibrationNames == {Calibrations[i] : i \in 1..Len(Calibrations)} \cup {"bogus", "moenbrekke1993"}

FileStates ==
    {[hall |-> TRUE,  ped |-> TRUE,  prod |-> TRUE,  profile |-> "typical"],
     [hall |-> TRUE,  ped |-> TRUE,  prod |-> TRUE,  profile |-> "low"],
     [hall |-> FALSE, ped |-> TRUE,  prod |-> TRUE,  profile |-> "typical"],
     [hall |-> TRUE,  ped |-> FALSE, prod |-> TRUE,  profile |-> "typical"],
     [hall |-> TRUE,  ped |-> TRUE,  prod |-> FALSE, profile |-> "typical"]}

-----------------------------------------------------------------------------
(* The state machine: a caller calls one of the three public functions at *)
(* a time; the functions keep no state between calls                     *)

Init ==
    /\ files \in FileStates
    /\ fn = "none"
    /\ args = <<>>
    /\ out = Raised("none", <<>>, <<>>, <<>>)

CallHardy ==
    /\ fn = "none"
    /\ \E mlat \in Arrays(MlatVals, {1, 3}), mlt \in Arrays(MltVals, {1, 3}),
          kp \in KpVals, hallOrPed \in EvaluatorChannels :
           /\ fn' = "hardy"
           /\ args' = [mlat |-> mlat, mlt |-> mlt, kp |-> kp, hallOrPed |-> hallOrPed]
           /\ out' = hardy(mlat, mlt, kp, hallOrPed)
           /\ UNCHANGED files

CallEUV ==
    /\ fn = "none"
    /\ \E sz \in Arrays(SzaVals, {1, 2, 3}), F107 \in {100000, 70000},
          hallOrPed \in EvaluatorChannels, calibration \in CalibrationNames :
           /\ fn' = "EUV_conductance"
           /\ args' = [sza |-> sz, F107 |-> F107, hallOrPed |-> hallOrPed,
                       calibration |-> calibration]
           /\ out' = EUV_conductance(sz, F107, hallOrPed, calibration)
           /\ UNCHANGED files

CallHardyEUV ==
    /\ fn = "none"
    /\ \E lon \in Arrays(LonVals, {1, 3}), lat \in Arrays(LatVals, {1}),
          kp \in {PyInt(0), PyInt(7)}, hall_or_pedersen \in CombinerChannels,
          starlight \in {0, 500, -1000}, dipole \in BOOLEAN,
          calibration \in {"MoenBrekke1993"} :
           /\ fn' = "hardy_EUV"
           /\ args' = [lon |-> lon, lat |-> lat, kp |-> kp, time |-> 12000,
                       hall_or_pedersen |-> hall_or_pedersen, starlight |-> starlight,
                       F107 |-> 100000, dipole |-> dipole, calibration |-> calibration]
           /\ out' = hardy_EUV(lon, lat, kp, 12000, hall_or_pedersen, starlight, 100000,
                               dipole, calibration)
           /\ UNCHANGED files

\* the call returns (or its exception propagates) to the caller
Return ==
    /\ fn # "none"
    /\ fn' = "none"
    /\ args' = <<>>
    /\ out' = Raised("none", <<>>, <<>>, <<>>)
    /\ UNCHANGED files

Next == CallHardy \/ CallEUV \/ CallHardyEUV \/ Return

Spec == Init /\ [][Next]_vars

-----------------------------------------------------------------------------
(* Vocabulary of the properties *)

IsPair(v) == "first" \in DOMAIN v

\* the arrays of a returned value
ArraysOf(v) == IF IsPair(v) THEN {v.first, v.second} ELSE {v}

\* every number of a returned value
NumbersOf(v) == UNION {{a.data[i] : i \in 1..Len(a.data)} : a \in ArraysOf(v)}

Returned(f) == fn = f /\ out.status = "ok"

EvaluatorToken(s) == Lower(s) \in {<<"h">>, <<"p">>, <<"h", "p">>}

LiteralKp(kp) == kp.t = "int" /\ kp.v \in 0..6

\* a 0-d array holding x
Scalar(x) == [shape |-> <<>>, data |-> <<x>>]

\* h0 of a channel at one mlt, for the rows of K<k>
MaxLatitudeAt(file, k, mlt) ==
    FourierSum(SelectKp(HardyTable(file, files.profile), PyInt(k)), "maxlatitude", mlt)

-----------------------------------------------------------------------------
(* C1: hardy succeeds for every kp that is an integer 0..6 and, for every  *)
(* other kp, fails with the assertion failure of the Kp validation, having *)
(* read no coefficient table and returning nothing.  (The inputs are       *)
(* otherwise valid: a channel of h, p, hp, loadable tables and mlat, mlt   *)
(* of one shape.)                                                          *)
C1_KpDomain ==
    (/\ fn = "hardy"
     /\ EvaluatorToken(args.hallOrPed)
     /\ files.hall /\ files.ped
     /\ args.mlat.shape = args.mlt.shape)
    => IF LiteralKp(args.kp) THEN out.status = "ok"
       ELSE /\ out.status = "AssertionError: Kp"
            /\ out.reads = <<>>
            /\ out.value = <<>>

\* the floors of the C2 property on one returned array of a channel
C2_FloorAt(a, file) ==
    \A i \in 1..Len(a.data) :
        /\ a.data[i] >= 0
        /\ Abs(At(args.mlat.data, i)) >= MaxLatitudeAt(file, args.kp.v, At(args.mlt.data, i))
               => a.data[i] >= 550

(* C2: every value hardy returns is >= 0, and is >= 0.55 at every sample   *)
(* where |mlat| >= h0, h0 being the reconstructed maxlatitude of the       *)
(* sample's channel (the boundary |mlat| = h0 included).                   *)
C2_HardyFloors ==
    (Returned("hardy") /\ LiteralKp(args.kp)) =>
        LET ch == Lower(args.hallOrPed)
        IN  /\ ch = <<"h">> => C2_FloorAt(out.value, HallFile)
            /\ ch = <<"p">> => C2_FloorAt(out.value, PedFile)
            /\ ch = <<"h", "p">> => /\ C2_FloorAt(out.value.first, HallFile)
                                    /\ C2_FloorAt(out.value.second, PedFile)

(* C3: every value EUV_conductance returns is >= 0, for every channel,     *)
(* every calibration (an unrecognized one included) and every sza, those   *)
(* outside the table range, where the interpolant is extrapolated,         *)
(* included.                                                               *)
C3_EUVNonNegative ==
    Returned("EUV_conductance") => \A v \in NumbersOf(out.value) : v >= 0

\* a call with both channels whose Hall interpolant is negative at a sample
\* beyond the table, which is returned as 0
C3_Witness ==
    /\ Returned("EUV_conductance")
    /\ Lower(args.hallOrPed) = <<"h", "p">>
    /\ \E i \in 1..Len(args.sza.data) :
          /\ args.sza.data[i] > MODELSZAS[Len(MODELSZAS)]
          /\ Interp(MODELSZAS, HallScaled("MoenBrekke1993", args.F107), args.sza.data[i]) < 0
          /\ args.calibration = "bogus"
          /\ out.value.first.data[i] = 0
          /\ out.value.second.data[i] = 0

(* C4: no value of the field hardy_EUV returns is negative, for every      *)
(* accepted channel, kp, frame and starlight.                              *)
C4_TotalNonNegative ==
    Returned("hardy_EUV") => \A v \in NumbersOf(out.value) : v >= 0

(* C5: for both evaluators, the pair returned for channel hp is, in        *)
(* (Hall, Pedersen) order, the arrays returned by the calls with channel h *)
(* and with channel p on the same other inputs.                            *)
C5_ChannelConsistency ==
    /\ (Returned("EUV_conductance") /\ Lower(args.hallOrPed) = <<"h", "p">>) =>
          LET H == EUV_conductance(args.sza, args.F107, <<"h">>, args.calibration)
              P == EUV_conductance(args.sza, args.F107, <<"p">>, args.calibration)
          IN  /\ H.status = "ok" /\ P.status = "ok"
              /\ out.value.first = H.value
              /\ out.value.second = P.value
    /\ (Returned("hardy") /\ Lower(args.hallOrPed) = <<"h", "p">>) =>
          LET H == hardy(args.mlat, args.mlt, args.kp, <<"h">>)
              P == hardy(args.mlat, args.mlt, args.kp, <<"p">>)
          IN  /\ H.status = "ok" /\ P.status = "ok"
              /\ out.value.first = H.value
              /\ out.value.second = P.value

\* a returned hardy pair of two samples whose Hall and Pedersen arrays differ
C5_Witness ==
    /\ Returned("hardy")
    /\ args.hallOrPed = <<"H", "P">>
    /\ Len(out.value.first.data) = 2
    /\ out.value.first.data[1] # out.value.first.data[2]
    /\ \A i \in 1..2 : out.value.first.data[i] # out.value.second.data[i]

\* the call returned, every array of the given shape
C6_Shaped(shape) ==
    /\ out.status = "ok"
    /\ \A a \in ArraysOf(out.value) : a.shape = shape

(* C6: the shape of every array returned by hardy_EUV, hardy and           *)
(* EUV_conductance is the broadcast shape of its inputs (lat with lon,     *)
(* mlat with mlt, sza), for scalar, 1-D and 2-D inputs, pairs of inputs    *)
(* whose shapes differ but broadcast together included; such a call        *)
(* returns.                                                                *)
C6_ShapePreserved ==
    /\ (/\ fn = "EUV_conductance"
        /\ EvaluatorToken(args.hallOrPed)
        /\ files.prod)
       => C6_Shaped(args.sza.shape)
    /\ (/\ fn = "hardy"
        /\ EvaluatorToken(args.hallOrPed)
        /\ LiteralKp(args.kp)
        /\ files.hall /\ files.ped
        /\ CanBroadcast(args.mlat.shape, args.mlt.shape))
       => C6_Shaped(BroadcastShape(args.mlat.shape, args.mlt.shape))
    /\ (/\ fn = "hardy_EUV"
        /\ ValidChannel(args.hall_or_pedersen)
        /\ LiteralKp(args.kp)
        /\ files.hall /\ files.ped /\ files.prod
        /\ CanBroadcast(args.lat.shape, args.lon.shape))
       => C6_Shaped(BroadcastShape(args.lat.shape, args.lon.shape))

(* C7: EUV_conductance called with a calibration that is none of the three *)
(* recognized names does not fail on that account: it does what the call   *)
(* with 'MoenBrekke1993' on the same sza, F107 and channel does, returning *)
(* the same output, and prints a notice; with a recognized name it prints  *)
(* none.                                                                   *)
C7_CalibrationFallback ==
    fn = "EUV_conductance" =>
        IF args.calibration \in {"MoenBrekke1993", "MoenBrekke1993_alt", "Cousinsetal2015"}
        THEN out.printed = <<>>
        ELSE LET M == EUV_conductance(args.sza, args.F107, args.hallOrPed, "MoenBrekke1993")
             IN  /\ out.status = M.status
                 /\ out.value = M.value
                 /\ out.status = "ok" => Len(out.printed) = 1

\* a returned call with calibration 'bogus' whose output is not the one of
\* either other calibration
C7_Witness ==
    /\ Returned("EUV_conductance")
    /\ args.calibration = "bogus"
    /\ out.printed = <<Notice("bogus")>>
    /\ \A c \in {"MoenBrekke1993_alt", "Cousinsetal2015"} :
          out.value # EUV_conductance(args.sza, args.F107, args.hallOrPed, c).value

\* the accepted tokens of each mode, and the call of the state with another
\* channel selector
C8_Hall == {<<"h">>, <<"h", "a", "l", "l">>}

C8_Pedersen == {<<"p">>, <<"p", "e", "d", "e", "r", "s", "e", "n">>}

C8_Both ==
    {<<"h", "p">>,
     <<"h", "a", "l", "l", "a", "n", "d", "p", "e", "d", "e", "r", "s", "e", "n">>}

C8_Call(channel) ==
    hardy_EUV(args.lon, args.lat, args.kp, args.time, channel, args.starlight, args.F107,
              args.dipole, args.calibration)

(* C8: hardy_EUV accepts a channel selector exactly when its lower-cased   *)
(* form is one of h, hall, p, pedersen, hp, hallandpedersen.  Any other    *)
(* string fails the call before a coordinate transform or an evaluator is  *)
(* invoked.  An accepted one selects one mode: h and hall the Hall array   *)
(* alone, p and pedersen the Pedersen array alone, hp and hallandpedersen  *)
(* the (Hall, Pedersen) pair; the mode is never left undefined.            *)
C8_ChannelValidation ==
    fn = "hardy_EUV" =>
        LET l == Lower(args.hall_or_pedersen)
        IN  IF l \in C8_Hall \cup C8_Pedersen \cup C8_Both
            THEN /\ out.status \notin {"AssertionError: hall_or_pedersen", "UnboundLocalError"}
                 /\ out.status = "ok" =>
                       /\ l \in C8_Hall => out.value = C8_Call(<<"h", "p">>).value.first
                       /\ l \in C8_Pedersen => out.value = C8_Call(<<"h", "p">>).value.second
                       /\ l \in C8_Both => out.value = Pair(C8_Call(<<"h">>).value,
                                                            C8_Call(<<"p">>).value)
            ELSE /\ out.status = "AssertionError: hall_or_pedersen"
                 /\ out.calls = <<>>
                 /\ out.reads = <<>>
                 /\ out.value = <<>>

\* 'Hall' returns the Hall array alone, which is not the Pedersen array
C8_Witness ==
    /\ Returned("hardy_EUV")
    /\ args.hall_or_pedersen = <<"H", "a", "l", "l">>
    /\ ~IsPair(out.value)
    /\ out.value = C8_Call(<<"h", "p">>).value.first
    /\ out.value # C8_Call(<<"h", "p">>).value.second

\* the call read the file
C9_Reads(file) == \E i \in 1..Len(out.reads) : out.reads[i] = file

(* C9: hardy_EUV asks the Hardy evaluator for the requested channel only:  *)
(* a Hall-only request reads the Hall coefficient table alone, a Pedersen- *)
(* only request the Pedersen table alone, so that the table of the channel *)
(* not requested cannot fail the call.                                     *)
C9_OnlyRequestedChannel ==
    (fn = "hardy_EUV" /\ ValidChannel(args.hall_or_pedersen)) =>
        LET l == Lower(args.hall_or_pedersen)
        IN  /\ l \in C8_Hall => /\ ~C9_Reads(PedFile)
                                /\ out.status # "FileNotFoundError" \/ ~files.hall \/ ~files.prod
            /\ l \in C8_Pedersen => /\ ~C9_Reads(HallFile)
                                    /\ out.status # "FileNotFoundError" \/ ~files.ped \/ ~files.prod

\* the value the C10 property expects at one point, and on one array
C10_Expected(channel, lat, lon) ==
    LET mag  == IF args.dipole THEN <<lat, lon>> ELSE geo2mag(lat, lon)
        geo  == IF args.dipole THEN mag2geo(lat, lon) ELSE <<lat, lon>>
        mlt  == mlon2mlt(mag[2], args.time)
        zen  == sza(geo[1], geo[2], args.time)
        H    == hardy(Scalar(mag[1]), Scalar(mlt), args.kp, channel)
        E    == EUV_conductance(Scalar(zen), args.F107, channel, args.calibration)
    IN  H.value.data[1] + E.value.data[1] + args.starlight

C10_Array(a, channel) ==
    \A i \in 1..Len(a.data) :
        a.data[i] = C10_Expected(channel, At(args.lat.data, i), At(args.lon.data, i))

(* C10: the value hardy_EUV returns for a channel at a sample is the Hardy *)
(* value of that channel at the magnetic latitude and MLT of the point,    *)
(* plus the EUV value of that channel at the solar zenith angle of the     *)
(* geographic position of the point, plus starlight.  In the magnetic      *)
(* frame the inputs are the magnetic coordinates and mag2geo gives the     *)
(* geographic position; in the geographic frame the inputs are the         *)
(* geographic position and geo2mag gives the magnetic coordinates.         *)
C10_SumOfComponents ==
    Returned("hardy_EUV") =>
        LET l == Lower(args.hall_or_pedersen)
        IN  /\ l \in C8_Hall => C10_Array(out.value, <<"h">>)
            /\ l \in C8_Pedersen => C10_Array(out.value, <<"p">>)
            /\ l \in C8_Both => /\ C10_Array(out.value.first, <<"h">>)
                                /\ C10_Array(out.value.second, <<"p">>)

\* a returned pair in the magnetic frame, two samples, a starlight offset,
\* channels and samples of different values
C10_Witness ==
    /\ Returned("hardy_EUV")
    /\ args.dipole
    /\ args.starlight > 0
    /\ IsPair(out.value)
    /\ Len(out.value.first.data) = 2
    /\ out.value.first.data[1] # out.value.first.data[2]
    /\ \A i \in 1..2 : out.value.first.data[i] # out.value.second.data[i]

====
